---- MODULE Spec2Model ----
(***************************************************************************)
(* Model of the request-dispatch layer of deep-framework:                  *)
(*   - deep-resource/lib/Resource/Request.js  (Request: transport choice,  *)
(*     response caching, response (de)serialisation)                       *)
(*   - deep-core/lib/AWS/Lambda/Runtime.js    (Runtime: identity,          *)
(*     validation, handler, error response)                                *)
(* Spec        : one Request object driven through its public operations,  *)
(*               with its asynchronous cache / transport callbacks.        *)
(* RuntimeSpec : one Runtime instance invoked repeatedly (the function     *)
(*               returned by the `lambda` getter).                         *)
(***************************************************************************)
EXTENDS Integers, Sequences, FiniteSets, TLC

VARIABLES
  \* ---- Request fields
  action,        \* this._action: [type, forceUserIdentity]
  native,        \* this._native
  cacheImpl,     \* this._cacheImpl: "null" or "cache"
  cacheTtl,      \* this._cacheTtl
  cached,        \* this._cached
  \* ---- the operation in flight (callback position and its closure)
  pc,            \* "idle", "has", "get", "transport", "set", "inv_has", "inv_invalidate"
  pending,       \* closure of the callbacks: cacheKey, invalidateCache, ...
  \* ---- the injected cache backend
  store,         \* set of entries [key, raw, origin]
  \* ---- what the operation in flight did (observation only)
  calls,         \* calls made to the cache and the transports, in order
  delivered,     \* arguments the caller's callback received, in order
  thrown,        \* exception raised by send / invalidateCache or their callbacks
  opThrown,      \* exception raised by the last synchronous operation
  obs,           \* results the backend reported to the operation in flight
  directCalled,  \* useDirectCall returned normally on this Request
  \* ---- Runtime fields
  loggedUserId,      \* this._loggedUserId
  forceUserIdentity, \* this._forceUserIdentity
  calleeConfig,      \* this._calleeConfig
  context,           \* this._context
  \* ---- what the last invocation did (observation only)
  rcalls,        \* calls made to security, validation and handle, in order
  failure,       \* the error thrown inside the sandbox, or "none"
  errorsSent     \* the ErrorResponses sent by the last invocation

reqVars == <<action, native, cacheImpl, cacheTtl, cached, pc, pending, store,
             calls, delivered, thrown, opThrown, obs, directCalled>>
rtVars == <<loggedUserId, forceUserIdentity, calleeConfig, context,
            rcalls, failure, errorsSent>>
vars == <<reqVars, rtVars>>

\* ---------------------------------------------------------------- constants

\* Request.TTL_DEFAULT / TTL_INVALIDATE / TTL_FOREVER
TTL_DEFAULT == 10
TTL_INVALIDATE == -1
TTL_FOREVER == 0

TtlValues == {TTL_INVALIDATE, TTL_FOREVER, TTL_DEFAULT}

\* Action.LAMBDA, Action.EXTERNAL, and a type _send has no case for
Action_LAMBDA == "lambda"
Action_EXTERNAL == "external"
ActionTypes == {Action_LAMBDA, Action_EXTERNAL, "other"}

\* ---------------------------------------------------------------- JS values
\* A JavaScript value, as far as JSON.stringify / JSON.parse tell them apart.
Undefined == [t |-> "undefined", v |-> ""]
Null == [t |-> "null", v |-> ""]
Obj(p) == [t |-> "object", v |-> p]
\* an Error instance: message and stack are not enumerable
Err(m) == [t |-> "Error", v |-> m]

\* JSON text, as the document it denotes.  Omitted: the key is not written.
Omitted == [j |-> "omitted", v |-> ""]
JNull == [j |-> "null", v |-> ""]
JObj(p) == [j |-> "object", v |-> p]

\* JSON.stringify of a property value: undefined drops the key, an Error
\* has no enumerable own property and is written as {}.
ToJson(val) ==
  CASE val.t = "undefined" -> Omitted
    [] val.t = "null" -> JNull
    [] val.t = "object" -> JObj(val.v)
    [] val.t = "Error" -> JObj("{}")

\* JSON.parse of a property: a missing key reads as undefined.
FromJson(js) ==
  CASE js.j = "omitted" -> Undefined
    [] js.j = "null" -> Null
    [] js.j = "object" -> Obj(js.v)

\* new ResponseImpl(request, data, error)
MkResponse(cls, data, error) == [class |-> cls, rawData |-> data, rawError |-> error]
NoResponse == MkResponse("none", Undefined, Undefined)

ResponseClasses == {"Response", "LambdaResponse", "SuperagentResponse"}

\* A cached string: the JSON text of {_class, data, error}, or the text null.
RawObject(cls, data, error) == [j |-> "object", class |-> cls, data |-> data, error |-> error]
RawNull == [j |-> "null", class |-> "", data |-> Omitted, error |-> Omitted]

\* Request._stringifyResponse
StringifyResponse(response) ==
  RawObject(response.class, ToJson(response.rawData), ToJson(response.rawError))

\* Request._chooseResponseImpl: a lookup in a plain object {}, so a name of
\* Object.prototype ("constructor") finds an inherited member.
ChooseResponseImpl(className) ==
  IF className \in ResponseClasses THEN className
  ELSE IF className = "constructor" THEN "Object"
  ELSE "undefined"

\* Request._rebuildResponse: [thrown, response]
RebuildResponse(rawData) ==
  IF rawData.j = "null"
    THEN [thrown |-> "CachedRequestException", response |-> NoResponse]
  ELSE LET impl == ChooseResponseImpl(rawData.class) IN
    IF impl = "undefined"
      THEN [thrown |-> "Exception", response |-> NoResponse]
    ELSE IF impl = "Object"
      \* new Object(request, ..) returns its first argument, the request
      THEN [thrown |-> "none", response |-> MkResponse("Request", Undefined, Undefined)]
    ELSE [thrown |-> "none",
          response |-> MkResponse(impl, FromJson(rawData.data), FromJson(rawData.error))]

\* ---------------------------------------------------------------- Request

Actions == [type : ActionTypes, forceUserIdentity : BOOLEAN]

\* action.source.original / action.source.api
SourceOriginal == "original"
SourceApi == "api"

\* the request's method and JSON.stringify(payload): fixed inputs
Method == "POST"
Payload == "{}"

\* Request constructor: this._native = true
NativeAfterConstruct_False == FALSE
NativeAfterConstruct == TRUE

\* Request.isCached
IsCached_IgnoreFlag(impl, flag) == impl # "null"
IsCached(impl, flag) == impl # "null" /\ flag

\* Request._buildCacheKey
BuildCacheKey(a, nat) ==
  [method |-> Method, type |-> a.type,
   endpoint |-> IF nat THEN SourceOriginal ELSE SourceApi,
   payload |-> Payload]
NoKey == [method |-> "", type |-> "", endpoint |-> "", payload |-> ""]

\* Request._send: the transport it calls, "throw" when it has no case
ChooseTransport(a, nat) ==
  IF ~nat THEN "api"
  ELSE IF a.type = Action_LAMBDA THEN "lambda"
  ELSE IF a.type = Action_EXTERNAL THEN "external"
  ELSE "throw"

\* the endpoint each transport is given
TransportTarget(via) == IF via = "api" THEN SourceApi ELSE SourceOriginal

TransportCall(via) == [op |-> "transport", via |-> via, target |-> TransportTarget(via)]
HasCall(key) == [op |-> "has", key |-> key]
GetCall(key) == [op |-> "get", key |-> key]
InvalidateCall(key) == [op |-> "invalidate", key |-> key]
\* cache.set(cacheKey, Request._stringifyResponse(response), this._cacheTtl, ..)
SetCall_ForeverTtl(key, response, ttl) ==
  [op |-> "set", key |-> key, raw |-> StringifyResponse(response), ttl |-> TTL_FOREVER]
SetCall(key, response, ttl) ==
  [op |-> "set", key |-> key, raw |-> StringifyResponse(response), ttl |-> ttl]

\* what a transport hands to its callback: (error, data)
TransportResponse(via, ok) ==
  IF via = "lambda"
    THEN IF ok THEN MkResponse("LambdaResponse", Obj("{Payload}"), Null)
         ELSE MkResponse("LambdaResponse", Null, Err("invoke failed"))
    ELSE IF ok THEN MkResponse("SuperagentResponse", Obj("{body}"), Null)
         ELSE MkResponse("SuperagentResponse", Undefined, Err("http failed"))

\* values another writer of the same cache may have left under the key
ForeignRaws ==
  { RawNull,
    RawObject("Response", JObj("{}"), Omitted),
    RawObject("Foo", JNull, JNull),
    RawObject("constructor", JNull, JNull) }

\* op: the operation observed; impl, cached, ttl: the fields it started with;
\* has, get, set: what the backend reported; ttlAtSet: cacheTtl when the
\* transport answered; origin: the response whose miss wrote the entry read.
NoObs ==
  [op |-> "none", impl |-> "null", cached |-> FALSE, ttl |-> 0, key |-> NoKey,
   has |-> "none", get |-> "none", getRaw |-> RawNull, origin |-> NoResponse,
   set |-> "none", setSync |-> FALSE, ttlAtSet |-> 0, dispatch |-> "none",
   response |-> NoResponse]
StartObs(op) == [NoObs EXCEPT !.op = op, !.impl = cacheImpl, !.cached = cached,
                              !.ttl = cacheTtl]

NoPending == [key |-> NoKey, invalidate |-> FALSE, via |-> "none", toCache |-> FALSE,
              raw |-> RawNull, response |-> NoResponse]

StoreHas(key) == \E e \in store : e.key = key
StoreGet(key) == IF StoreHas(key) THEN (CHOOSE e \in store : e.key = key).raw ELSE RawNull
StoreOrigin(key) ==
  IF StoreHas(key) THEN (CHOOSE e \in store : e.key = key).origin ELSE NoResponse
StorePut(key, raw, origin) ==
  {e \in store : e.key # key} \cup {[key |-> key, raw |-> raw, origin |-> origin]}
StoreDrop(key) == {e \in store : e.key # key}

RequestInit ==
  /\ action \in Actions
  /\ native = NativeAfterConstruct
  /\ cacheImpl = "null"
  /\ cacheTtl = TTL_FOREVER
  /\ cached = FALSE
  /\ pc = "idle"
  /\ pending = NoPending
  /\ store = {}
  /\ calls = <<>>
  /\ delivered = <<>>
  /\ thrown = "none"
  /\ opThrown = "none"
  /\ obs = NoObs
  /\ directCalled = FALSE

\* new Request(action, payload, method), with a cache backend of its own
NewRequest(a) ==
  /\ pc = "idle"
  /\ action' = a
  /\ native' = NativeAfterConstruct
  /\ cacheImpl' = "null"
  /\ cacheTtl' = TTL_FOREVER
  /\ cached' = FALSE
  /\ pending' = NoPending
  /\ store' = {}
  /\ calls' = <<>>
  /\ delivered' = <<>>
  /\ thrown' = "none"
  /\ opThrown' = "none"
  /\ obs' = NoObs
  /\ directCalled' = FALSE
  /\ UNCHANGED <<pc, rtVars>>

flight == <<pc, pending, store, calls, delivered, thrown, obs>>

\* Request.useDirectCall
UseDirectCall ==
  /\ IF action.forceUserIdentity
       THEN /\ opThrown' = "DirectLambdaCallDeniedException"
            /\ UNCHANGED <<native, directCalled>>
       ELSE /\ opThrown' = "none"
            /\ native' = TRUE
            /\ directCalled' = TRUE
  /\ UNCHANGED <<action, cacheImpl, cacheTtl, cached, flight, rtVars>>

\* Request.enableCache
EnableCache ==
  /\ cached' = TRUE
  /\ opThrown' = "none"
  /\ UNCHANGED <<action, native, cacheImpl, cacheTtl, directCalled, flight, rtVars>>

\* Request.disableCache
DisableCache ==
  /\ cached' = FALSE
  /\ opThrown' = "none"
  /\ UNCHANGED <<action, native, cacheImpl, cacheTtl, directCalled, flight, rtVars>>

\* Request.cache(ttl)
Cache(ttl) ==
  /\ IF cacheImpl = "null"
       THEN /\ opThrown' = "MissingCacheImplementationException"
            /\ UNCHANGED <<cacheTtl, cached>>
       ELSE /\ opThrown' = "none"
            /\ cacheTtl' = ttl
            /\ cached' = TRUE
  /\ UNCHANGED <<action, native, cacheImpl, directCalled, flight, rtVars>>

\* set cacheTtl(ttl)
SetCacheTtl(ttl) ==
  /\ cacheTtl' = ttl
  /\ opThrown' = "none"
  /\ UNCHANGED <<action, native, cacheImpl, cached, directCalled, flight, rtVars>>

\* set cacheImpl(cache): assigns, then this.cache(Request.TTL_DEFAULT)
SetCacheImpl(impl) ==
  /\ cacheImpl' = impl
  /\ IF impl = "null"
       THEN /\ opThrown' = "MissingCacheImplementationException"
            /\ UNCHANGED <<cacheTtl, cached>>
       ELSE /\ opThrown' = "none"
            /\ cacheTtl' = TTL_DEFAULT
            /\ cached' = TRUE
  /\ UNCHANGED <<action, native, directCalled, flight, rtVars>>

fields == <<action, native, cacheImpl, cacheTtl, cached, opThrown, directCalled>>

\* Request._send(callback): calls one transport, or throws.
\* toCache: the callback is send's wrapper that writes the cache.
Dispatch(prevCalls, pend, o, toCache) ==
  LET via == ChooseTransport(action, native) IN
  /\ IF via = "throw"
       THEN /\ thrown' = "Exception"
            /\ pc' = "idle"
            /\ pending' = NoPending
            /\ calls' = prevCalls
            /\ obs' = [o EXCEPT !.dispatch = "throw"]
       ELSE /\ thrown' = "none"
            /\ pc' = "transport"
            /\ pending' = [pend EXCEPT !.via = via, !.toCache = toCache]
            /\ calls' = Append(prevCalls, TransportCall(via))
            /\ obs' = [o EXCEPT !.dispatch = via]

\* Request.send(callback), up to its first asynchronous call
Send ==
  /\ pc = "idle"
  /\ delivered' = <<>>
  /\ IF ~IsCached(cacheImpl, cached)
       THEN Dispatch(<<>>, NoPending, StartObs("send"), FALSE)
       ELSE LET cacheKey == BuildCacheKey(action, native)
                invalidateCache == (cacheTtl = TTL_INVALIDATE)
            IN /\ calls' = <<HasCall(cacheKey)>>
               /\ pc' = "has"
               /\ pending' = [NoPending EXCEPT !.key = cacheKey,
                                               !.invalidate = invalidateCache]
               /\ obs' = [StartObs("send") EXCEPT !.key = cacheKey]
               /\ thrown' = "none"
  /\ UNCHANGED <<fields, store, rtVars>>

\* the callback send gives cache.has
HasCb(res) ==
  /\ pc = "has"
  /\ IF res = "error"
       THEN /\ thrown' = "CachedRequestException"
            /\ pc' = "idle"
            /\ pending' = NoPending
            /\ obs' = [obs EXCEPT !.has = "error"]
            /\ UNCHANGED calls
       ELSE IF StoreHas(pending.key) /\ ~pending.invalidate
         THEN /\ calls' = Append(calls, GetCall(pending.key))
              /\ pc' = "get"
              /\ obs' = [obs EXCEPT !.has = "present"]
              /\ UNCHANGED <<pending, thrown>>
         ELSE Dispatch(calls, pending,
                       [obs EXCEPT !.has = IF StoreHas(pending.key)
                                             THEN "present" ELSE "absent"],
                       TRUE)
  /\ UNCHANGED <<fields, store, delivered, rtVars>>

\* the callback send gives cache.get
GetCb(res) ==
  /\ pc = "get"
  /\ pc' = "idle"
  /\ pending' = NoPending
  /\ IF res = "error"
       THEN /\ thrown' = "CachedRequestException"
            /\ obs' = [obs EXCEPT !.get = "error"]
            /\ UNCHANGED delivered
       ELSE LET raw == StoreGet(pending.key)
                rb == RebuildResponse(raw)
            IN /\ thrown' = rb.thrown
               /\ delivered' = IF rb.thrown = "none"
                                 THEN Append(delivered, rb.response) ELSE delivered
               /\ obs' = [obs EXCEPT !.get = "ok", !.getRaw = raw,
                                     !.origin = StoreOrigin(pending.key)]
  /\ UNCHANGED <<fields, store, calls, rtVars>>

\* the callback a transport is given; for a cached request it is send's
\* wrapper: cache.set(..), then callback(response).  sync: cache.set runs
\* its own callback before it returns.
TransportCb(ok, sync, res) ==
  /\ pc = "transport"
  /\ LET response == TransportResponse(pending.via, ok) IN
     IF ~pending.toCache
       THEN /\ sync = FALSE /\ res = "ok"
            /\ delivered' = Append(delivered, response)
            /\ pc' = "idle"
            /\ pending' = NoPending
            /\ obs' = [obs EXCEPT !.response = response]
            /\ UNCHANGED <<calls, thrown, store>>
       ELSE LET call == SetCall(pending.key, response, cacheTtl) IN
            /\ calls' = Append(calls, call)
            /\ IF sync
                 THEN /\ pc' = "idle"
                      /\ pending' = NoPending
                      /\ obs' = [obs EXCEPT !.response = response, !.set = res,
                                            !.setSync = TRUE, !.ttlAtSet = cacheTtl]
                      /\ IF res = "ok"
                           THEN /\ store' = StorePut(call.key, call.raw, response)
                                /\ delivered' = Append(delivered, response)
                                /\ UNCHANGED thrown
                           ELSE /\ thrown' = "CachedRequestException"
                                /\ UNCHANGED <<store, delivered>>
                 ELSE /\ res = "ok"
                      /\ pc' = "set"
                      /\ pending' = [pending EXCEPT !.key = call.key, !.raw = call.raw,
                                                    !.response = response]
                      /\ obs' = [obs EXCEPT !.response = response,
                                            !.ttlAtSet = cacheTtl]
                      /\ delivered' = Append(delivered, response)
                      /\ UNCHANGED <<thrown, store>>
  /\ UNCHANGED <<fields, rtVars>>

\* the callback send's wrapper gives cache.set, when it runs later
SetCb(res) ==
  /\ pc = "set"
  /\ pc' = "idle"
  /\ pending' = NoPending
  /\ obs' = [obs EXCEPT !.set = res]
  /\ IF res = "ok"
       THEN /\ store' = StorePut(pending.key, pending.raw, pending.response)
            /\ UNCHANGED thrown
       ELSE /\ thrown' = "CachedRequestException"
            /\ UNCHANGED store
  /\ UNCHANGED <<fields, calls, delivered, rtVars>>

\* Request.invalidateCache(callback), up to cache.has
InvalidateCache ==
  /\ pc = "idle"
  /\ delivered' = <<>>
  /\ thrown' = "none"
  /\ IF ~IsCached(cacheImpl, cached)
       THEN /\ calls' = <<>>
            /\ obs' = [StartObs("invalidate") EXCEPT !.dispatch = "invalidated"]
            /\ UNCHANGED <<pc, pending>>
       ELSE LET cacheKey == BuildCacheKey(action, native) IN
            /\ calls' = <<HasCall(cacheKey)>>
            /\ pc' = "inv_has"
            /\ pending' = [NoPending EXCEPT !.key = cacheKey]
            /\ obs' = [StartObs("invalidate") EXCEPT !.key = cacheKey]
  /\ UNCHANGED <<fields, store, rtVars>>

\* the callback invalidateCache gives cache.has
InvalidateHasCb(res) ==
  /\ pc = "inv_has"
  /\ IF res = "error"
       THEN /\ thrown' = "CachedRequestException"
            /\ pc' = "idle"
            /\ pending' = NoPending
            /\ obs' = [obs EXCEPT !.has = "error"]
            /\ UNCHANGED calls
       ELSE IF StoreHas(pending.key)
         THEN /\ calls' = Append(calls, InvalidateCall(pending.key))
              /\ pc' = "inv_invalidate"
              /\ obs' = [obs EXCEPT !.has = "present"]
              /\ UNCHANGED <<pending, thrown>>
         ELSE /\ pc' = "idle"
              /\ pending' = NoPending
              /\ obs' = [obs EXCEPT !.has = "absent", !.dispatch = "invalidated"]
              /\ UNCHANGED <<calls, thrown>>
  /\ UNCHANGED <<fields, store, delivered, rtVars>>

\* the callback invalidateCache gives cache.invalidate
InvalidateCb(res) ==
  /\ pc = "inv_invalidate"
  /\ pc' = "idle"
  /\ pending' = NoPending
  /\ IF res = "error"
       THEN /\ thrown' = "CachedRequestException"
            /\ UNCHANGED <<store, obs>>
       ELSE /\ store' = StoreDrop(pending.key)
            /\ obs' = [obs EXCEPT !.dispatch = "invalidated"]
            /\ UNCHANGED thrown
  /\ UNCHANGED <<fields, calls, delivered, rtVars>>

\* the cache backend drops an entry (its TTL ran out)
CacheExpire ==
  /\ \E e \in store : store' = store \ {e}
  /\ UNCHANGED <<fields, pc, pending, calls, delivered, thrown, obs, rtVars>>

\* another writer of the same backend leaves a value under the request's key
CacheForeignWrite(raw) ==
  /\ cacheImpl # "null"
  /\ ~StoreHas(BuildCacheKey(action, native))
  /\ store' = StorePut(BuildCacheKey(action, native), raw, NoResponse)
  /\ UNCHANGED <<fields, pc, pending, calls, delivered, thrown, obs, rtVars>>

RuntimeIdle ==
  /\ loggedUserId = "null"
  /\ forceUserIdentity = FALSE
  /\ calleeConfig = [kind |-> "null", type |-> "", original |-> "", validationSchema |-> "none"]
  /\ context = [identity |-> [kind |-> "none", pool |-> "", id |-> ""], arn |-> "unset"]
  /\ rcalls = <<>>
  /\ failure = "none"
  /\ errorsSent = <<>>

Init == RequestInit /\ RuntimeIdle

Next ==
  \/ \E a \in Actions : NewRequest(a)
  \/ UseDirectCall
  \/ EnableCache
  \/ DisableCache
  \/ \E ttl \in TtlValues : Cache(ttl)
  \/ \E ttl \in TtlValues : SetCacheTtl(ttl)
  \/ \E impl \in {"null", "cache"} : SetCacheImpl(impl)
  \/ Send
  \/ \E res \in {"value", "error"} : HasCb(res)
  \/ \E res \in {"value", "error"} : GetCb(res)
  \/ \E ok \in BOOLEAN, sync \in BOOLEAN, res \in {"ok", "falsy", "error"} :
       TransportCb(ok, sync, res)
  \/ \E res \in {"ok", "falsy", "error"} : SetCb(res)
  \/ InvalidateCache
  \/ \E res \in {"value", "error"} : InvalidateHasCb(res)
  \/ \E res \in {"ok", "error"} : InvalidateCb(res)
  \/ CacheExpire
  \/ \E raw \in ForeignRaws : CacheForeignWrite(raw)

Spec == Init /\ [][Next]_vars

\* ---------------------------------------------------------------- Request claims

CallsOf(op) == {i \in 1..Len(calls) : calls[i].op = op}
TransportCalls == CallsOf("transport")
CacheCalls == {i \in 1..Len(calls) : calls[i].op \in {"has", "get", "set", "invalidate"}}

\* the send observed started on a cached request
SendCached == obs.op = "send" /\ obs.impl # "null" /\ obs.cached
\* the send observed started on a request that was not cached
SendNotCached == obs.op = "send" /\ (obs.impl = "null" \/ ~obs.cached)

\* C2, first sentence: a send that dispatches calls exactly the one transport
\* its native flag and action type select, with that transport's endpoint;
\* any other type while native throws Exception and calls none.
C2_Choice ==
  (obs.op = "send" /\ obs.dispatch # "none") =>
    IF ~native
      THEN /\ Cardinality(TransportCalls) = 1
           /\ \A i \in TransportCalls : calls[i] = [op |-> "transport", via |-> "api",
                                                    target |-> SourceApi]
    ELSE IF action.type \in {Action_LAMBDA, Action_EXTERNAL}
      THEN /\ Cardinality(TransportCalls) = 1
           /\ \A i \in TransportCalls :
                calls[i] = [op |-> "transport", via |-> action.type,
                            target |-> SourceOriginal]
    ELSE /\ TransportCalls = {}
         /\ obs.dispatch = "throw"

\* C2, last sentence, for the API gateway transport.  _native is written only
\* by the constructor and by useDirectCall (to true), so that transport can be
\* reached only by a request on which useDirectCall has not returned: such a
\* request, when it dispatches, goes through the API gateway.
C2_ApiReached ==
  (obs.op = "send" /\ obs.dispatch \notin {"none", "throw"} /\ ~directCalled)
    => obs.dispatch = "api"

\* C2, supporting fact: no reachable send calls the API gateway transport.
C2_ApiNeverCalled == \A i \in TransportCalls : calls[i].via # "api"

\* C2 as stated: the transport is chosen by native flag and action type, and
\* each of the three transports is reachable through the public operations.
C2_Original == C2_Choice /\ C2_ApiReached

\* C6: on a cache hit (cached request, cacheTtl not TTL_INVALIDATE, cache.has
\* reports the key present) send calls no transport and no cache.set, reads
\* cache.get under the key it gave cache.has, and what the callback receives
\* is the response rebuilt from what cache.get returned; a request that is not
\* cached makes no cache call and goes straight to the transport.
C6_CacheHit ==
  /\ (SendCached /\ obs.ttl # TTL_INVALIDATE /\ obs.has = "present") =>
       /\ TransportCalls = {}
       /\ CallsOf("set") = {}
       /\ Len(calls) = 2
       /\ calls[1].op = "has"
       /\ calls[2] = GetCall(calls[1].key)
       /\ delivered # <<>> =>
            /\ obs.get = "ok"
            /\ delivered = <<RebuildResponse(obs.getRaw).response>>
       /\ (pc = "idle" /\ obs.get = "ok"
             /\ RebuildResponse(obs.getRaw).thrown = "none") => Len(delivered) = 1
  /\ SendNotCached =>
       /\ CacheCalls = {}
       /\ obs.has = "none"
       /\ IF obs.dispatch = "throw" THEN calls = <<>>
          ELSE Len(calls) = 1 /\ calls[1].op = "transport"

\* C6 witness: a hit has delivered a rebuilt LambdaResponse
C6_Witness ==
  /\ SendCached /\ obs.ttl # TTL_INVALIDATE /\ obs.has = "present"
  /\ pc = "idle"
  /\ Len(delivered) = 1
  /\ delivered[1].class = "LambdaResponse"

\* the send observed took the miss path: cache.has answered, with the key
\* absent or with cacheTtl TTL_INVALIDATE
SendMiss ==
  /\ SendCached
  /\ \/ obs.has = "absent"
     \/ obs.ttl = TTL_INVALIDATE /\ obs.has = "present"

MissEffects(deliveredOk) ==
  /\ Cardinality(TransportCalls) = 1
  /\ CallsOf("get") = {}
  /\ Cardinality(CallsOf("set")) = 1
  /\ \A i \in CallsOf("set") :
       /\ calls[i].key = calls[1].key
       /\ calls[i].raw = StringifyResponse(obs.response)
       /\ calls[i].ttl = obs.ttlAtSet
  /\ deliveredOk
  /\ obs.set \in {"falsy", "error"} => thrown = "CachedRequestException"

\* C7 as stated: whenever the request is cached and cache.has reports the key
\* absent or cacheTtl is TTL_INVALIDATE, the finished send has called the
\* transport exactly once and cache.get never, has written the serialized
\* response with cache.set under the key given to cache.has with the current
\* cacheTtl, and the callback has received the response once; a failed
\* cache.set raises CachedRequestException.
C7_Original ==
  (SendCached /\ (obs.has = "absent" \/ obs.ttl = TTL_INVALIDATE) /\ pc = "idle")
    => MissEffects(delivered = <<obs.response>>)

\* C7 amended: the same, provided cache.has reported no error and the action
\* type is lambda or external; the callback receives the response exactly
\* once unless cache.set fails before it returns, and then not at all.
C7_Amended ==
  (SendMiss /\ action.type \in {Action_LAMBDA, Action_EXTERNAL}) =>
    /\ pc \in {"transport", "set", "idle"}
    /\ pc = "transport" =>
         /\ Cardinality(TransportCalls) = 1
         /\ CallsOf("get") = {} /\ CallsOf("set") = {}
         /\ delivered = <<>>
    /\ pc \in {"set", "idle"} =>
         MissEffects(IF obs.setSync /\ obs.set \in {"falsy", "error"}
                       THEN delivered = <<>>
                       ELSE delivered = <<obs.response>>)
    /\ obs.set = "ok" => thrown = "none"

\* C7 witness: a finished send with cacheTtl TTL_INVALIDATE on a present key
\* went to the transport and wrote the cache
C7_Witness ==
  /\ SendMiss /\ action.type = Action_LAMBDA
  /\ obs.ttl = TTL_INVALIDATE /\ obs.has = "present"
  /\ pc = "idle" /\ obs.set = "ok"
  /\ \E i \in CallsOf("set") : calls[i].ttl = TTL_INVALIDATE
  /\ Len(delivered) = 1

\* C8, first sentence: a cache hit on an entry written by a miss delivers a
\* response equal in class, data and error to the one that miss delivered.
C8_RoundTrip ==
  (obs.op = "send" /\ obs.get = "ok" /\ obs.origin # NoResponse /\ pc = "idle")
    => delivered = <<obs.origin>>

\* C8, second sentence: a stored value naming no Response class raises
\* Exception, one that parses to a falsy value CachedRequestException.
C8_Rejects ==
  (obs.op = "send" /\ obs.get = "ok" /\ pc = "idle") =>
    /\ obs.getRaw.j = "null" => thrown = "CachedRequestException"
    /\ (obs.getRaw.j = "object" /\ obs.getRaw.class \notin ResponseClasses)
         => thrown = "Exception"

\* C9: for an action that forces user identity no send reaches the direct
\* lambda invoke transport.
C9_NoDirectInvoke ==
  action.forceUserIdentity => \A i \in TransportCalls : calls[i].via # "lambda"

IdentityPoolId == "pool-1"

\* context.identity: absent, without the two cognito keys, or with both
NoIdentity == [kind |-> "none", pool |-> "", id |-> ""]
PartialIdentity == [kind |-> "partial", pool |-> "", id |-> ""]
FullIdentity(pool, id) == [kind |-> "full", pool |-> pool, id |-> id]
Identities ==
  { NoIdentity, PartialIdentity, FullIdentity("pool-1", "user-a"),
    FullIdentity("pool-1", "user-b"), FullIdentity("pool-2", "user-c") }

\* kernel.microservices[..].rawResources[..][..], in iteration order
KernelActions ==
  << [kind |-> "action", type |-> "lambda", original |-> "arn:string", validationSchema |-> "string"],
     [kind |-> "action", type |-> "lambda", original |-> "arn:joi", validationSchema |-> "joi"],
     [kind |-> "action", type |-> "lambda", original |-> "arn:raw", validationSchema |-> "raw"],
     [kind |-> "action", type |-> "lambda", original |-> "arn:plain", validationSchema |-> "none"],
     [kind |-> "action", type |-> "external", original |-> "arn:ext", validationSchema |-> "string"] >>

\* context.invokedFunctionArn; "none": the context has no such option
Arns == {"none", "arn:string", "arn:joi", "arn:raw", "arn:plain", "arn:ext", "arn:other"}

Contexts == [identity : Identities, arn : Arns]
\* this._context before the first run
NoContext == [identity |-> NoIdentity, arn |-> "unset"]

NullConfig == [kind |-> "null", type |-> "", original |-> "", validationSchema |-> "none"]
EmptyConfig == [kind |-> "empty", type |-> "", original |-> "", validationSchema |-> "none"]

\* the steps of the sandboxed function that may throw of their own
FailPoints == {"none", "warmupBackendLogin", "setSchema", "validateRuntimeInput", "handle"}

\* Runtime.calleeConfig: memoised in this._calleeConfig ({} is truthy)
LookupCallee(arn) ==
  LET hits == {i \in 1..Len(KernelActions) :
                 /\ KernelActions[i].type = "lambda"
                 /\ KernelActions[i].original = arn}
  IN IF arn # "none" /\ hits # {}
       THEN KernelActions[CHOOSE i \in hits : \A j \in hits : i <= j]
       ELSE EmptyConfig
GetCalleeConfig(cfg, ctx) == IF cfg.kind # "null" THEN cfg ELSE LookupCallee(ctx.arn)

\* The sandboxed function threads [uid, cfg, calls, thrown]; a step after a
\* throw does not run.
\* Runtime._fillUserContext
FillUserContext(r, ctx, failAt) ==
  IF ctx.identity.kind # "full" THEN r
  ELSE IF IdentityPoolId # ctx.identity.pool
    THEN [r EXCEPT !.thrown = "InvalidCognitoIdentityException"]
  ELSE LET warmed == [r EXCEPT !.calls = Append(@, [op |-> "warmupBackendLogin",
                                                      arg |-> "context", by |-> "run"])]
       IN IF failAt = "warmupBackendLogin"
            THEN [warmed EXCEPT !.thrown = "warmupBackendLoginError"]
            ELSE [warmed EXCEPT !.uid = ctx.identity.id]

\* Runtime.run: if (!this._loggedUserId && this._forceUserIdentity) throw
CheckUserContext(r, force) ==
  IF r.thrown # "none" THEN r
  ELSE IF r.uid = "null" /\ force
    THEN [r EXCEPT !.thrown = "MissingUserContextException"]
  ELSE r

\* Runtime.run: let validationSchema = this.validationSchema
ResolveCallee(r, ctx) ==
  IF r.thrown # "none" THEN r ELSE [r EXCEPT !.cfg = GetCalleeConfig(r.cfg, ctx)]

\* validation.validateRuntimeInput(runtime, schemaName, cb): throws, or
\* hands the validated input to cb
ValidateRuntimeInput(r, schemaName, failAt) ==
  LET called == [r EXCEPT !.calls = Append(@, [op |-> "validateRuntimeInput",
                                                arg |-> schemaName, by |-> "run"])]
  IN IF failAt = "validateRuntimeInput"
       THEN [called EXCEPT !.thrown = "validateRuntimeInputError"]
     ELSE LET handled == [called EXCEPT !.calls = Append(@, [op |-> "handle",
                                           arg |-> "validated", by |-> "validation"])]
          IN IF failAt = "handle" THEN [handled EXCEPT !.thrown = "handleError"]
             ELSE handled

\* Runtime.run: the branch on validationSchema
ValidateOrHandle(r, failAt) ==
  IF r.thrown # "none" THEN r
  ELSE LET schema == r.cfg.validationSchema IN
    IF schema = "none"
      THEN LET handled == [r EXCEPT !.calls = Append(@, [op |-> "handle",
                                                  arg |-> "request", by |-> "run"])]
           IN IF failAt = "handle" THEN [handled EXCEPT !.thrown = "handleError"]
              ELSE handled
    ELSE IF schema = "string"
      THEN ValidateRuntimeInput(r, "string", failAt)
    ELSE LET method == IF schema = "joi" THEN "setSchema" ELSE "setSchemaRaw"
             named == [r EXCEPT !.calls = Append(@, [op |-> method,
                                      arg |-> "DeepHandlerValidation_time", by |-> "run"])]
         IN IF failAt = "setSchema"
              THEN [named EXCEPT !.thrown = "setSchemaError"]
              ELSE ValidateRuntimeInput(named, "DeepHandlerValidation_time", failAt)

\* the function run() gives the Sandbox
SandboxedBody(uid, cfg, force, ctx, failAt) ==
  ValidateOrHandle(
    ResolveCallee(
      CheckUserContext(
        FillUserContext([uid |-> uid, cfg |-> cfg, calls |-> <<>>, thrown |-> "none"],
                        ctx, failAt),
        force),
      ctx),
    failAt)

\* Runtime.createError(error).send(), the Sandbox's fail callback
FailHandler_Swallow(error) == <<>>
FailHandler(error) == <<[class |-> "ErrorResponse", error |-> error]>>

\* Sandbox(func).fail(cb).run(): cb gets what func throws
SandboxRun(r) == IF r.thrown # "none" THEN FailHandler(r.thrown) ELSE <<>>

\* Runtime constructor, with kernel.config.forceUserIdentity (or without it)
NewRuntime(cfgForce) ==
  /\ loggedUserId' = "null"
  /\ forceUserIdentity' = (cfgForce = "true")
  /\ calleeConfig' = NullConfig
  /\ context' = NoContext
  /\ rcalls' = <<>>
  /\ failure' = "none"
  /\ errorsSent' = <<>>
  /\ UNCHANGED reqVars

\* Runtime.run(event, context): one call of the function `lambda` returns
Run(ctx, failAt) ==
  LET r == SandboxedBody(loggedUserId, calleeConfig, forceUserIdentity, ctx, failAt) IN
  /\ \/ failAt = "none"
     \/ r.thrown = failAt \o "Error"
  /\ context' = ctx
  /\ loggedUserId' = r.uid
  /\ calleeConfig' = r.cfg
  /\ rcalls' = r.calls
  /\ failure' = r.thrown
  /\ errorsSent' = SandboxRun(r)
  /\ UNCHANGED <<forceUserIdentity, reqVars>>

RequestIdle ==
  /\ RequestInit
  /\ action = [type |-> Action_LAMBDA, forceUserIdentity |-> FALSE]

RuntimeInit ==
  /\ loggedUserId = "null"
  /\ forceUserIdentity \in BOOLEAN
  /\ calleeConfig = NullConfig
  /\ context = NoContext
  /\ rcalls = <<>>
  /\ failure = "none"
  /\ errorsSent = <<>>
  /\ RequestIdle

RuntimeNext ==
  \/ \E cfgForce \in {"absent", "true", "false"} : NewRuntime(cfgForce)
  \/ \E ctx \in Contexts, failAt \in FailPoints : Run(ctx, failAt)

RuntimeSpec == RuntimeInit /\ [][RuntimeNext]_vars

\* ---------------------------------------------------------------- Runtime claims

Invoked == context # NoContext
RCallsOf(ops) == {i \in 1..Len(rcalls) : rcalls[i].op \in ops}
HandleByRun == {i \in 1..Len(rcalls) : rcalls[i].op = "handle" /\ rcalls[i].by = "run"}

\* what the context of the invocation says the logged user is
ContextUserId(ctx) ==
  IF ctx.identity.kind = "full" /\ ctx.identity.pool = IdentityPoolId
    THEN ctx.identity.id ELSE "null"
PoolMismatch(ctx) == ctx.identity.kind = "full" /\ ctx.identity.pool # IdentityPoolId

\* the lambda action the context's invokedFunctionArn names, {} when none
ContextCallee(ctx) == LookupCallee(ctx.arn)

\* C1: every invocation in which a step of the sandboxed function fails sends
\* exactly one ErrorResponse, built from that failure; one without a failure
\* sends none.
C1_FailureAnswered ==
  Invoked =>
    IF failure = "none" THEN errorsSent = <<>>
    ELSE errorsSent = <<[class |-> "ErrorResponse", error |-> failure]>>

\* C1 witness: the user handler failed and one ErrorResponse was sent
C1_Witness ==
  /\ Invoked
  /\ failure = "handleError"
  /\ RCallsOf({"handle"}) # {}
  /\ Len(errorsSent) = 1

\* C3: after the identity step of every invocation, loggedUserId is the
\* cognitoIdentityId of that invocation's context when it carries an identity
\* of the configured pool, and null otherwise.
C3_IdentityOfInvocation ==
  (Invoked /\ failure # "warmupBackendLoginError") =>
    loggedUserId = ContextUserId(context)

\* C4: when the context's pool differs from the configured one, or
\* forceUserIdentity is set and the invocation obtained no logged user id,
\* neither validateInput nor handle runs, warmupBackendLogin is not called on
\* a mismatch, and an error response is sent.
C4_IdentityGate ==
  (Invoked /\ (PoolMismatch(context)
                 \/ (forceUserIdentity /\ ContextUserId(context) = "null"))) =>
    /\ RCallsOf({"validateRuntimeInput", "handle"}) = {}
    /\ PoolMismatch(context) => RCallsOf({"warmupBackendLogin"}) = {}
    /\ Len(errorsSent) = 1

\* C4, supporting fact: whenever the identity step or the forced-identity
\* check throws, neither validation nor handle runs and one error is sent.
C4_ThrowGate ==
  (Invoked /\ failure \in {"InvalidCognitoIdentityException",
                            "MissingUserContextException"}) =>
    /\ RCallsOf({"validateRuntimeInput", "handle"}) = {}
    /\ Len(errorsSent) = 1

\* C5: once the identity step has passed, a callee (the lambda action whose
\* source.original is the context's invokedFunctionArn) with a
\* validationSchema has handle called only by validateRuntimeInput, after a
\* non-string schema is registered under a generated name (setSchema for Joi,
\* setSchemaRaw otherwise); without a callee or a schema, run calls handle
\* once with the request and validation is not invoked.
C5_ValidationFirst ==
  (Invoked /\ failure \notin {"InvalidCognitoIdentityException",
                               "MissingUserContextException",
                               "warmupBackendLoginError"}) =>
    LET schema == ContextCallee(context).validationSchema
        rest == SelectSeq(rcalls, LAMBDA c : c.op # "warmupBackendLogin")
    IN IF schema = "none"
         THEN /\ Len(rest) = 1
              /\ rest[1] = [op |-> "handle", arg |-> "request", by |-> "run"]
       ELSE /\ HandleByRun = {}
            /\ IF schema = "string"
                 THEN /\ Len(rest) >= 1
                      /\ rest[1] = [op |-> "validateRuntimeInput", arg |-> "string",
                                    by |-> "run"]
                 ELSE /\ Len(rest) >= 1
                      /\ rest[1] = [op |-> IF schema = "joi" THEN "setSchema"
                                           ELSE "setSchemaRaw",
                                    arg |-> "DeepHandlerValidation_time", by |-> "run"]
                      /\ failure # "setSchemaError" =>
                           /\ Len(rest) >= 2
                           /\ rest[2] = [op |-> "validateRuntimeInput",
                                         arg |-> "DeepHandlerValidation_time",
                                         by |-> "run"]

====
